---- MODULE Spec2Model ----
(***************************************************************************)
(* A model of the pentonimo search engine: the 8x8 bit tile, the piece     *)
(* model, the tiled board, the BFS diameter oracle and the parallel        *)
(* memoized depth-first search (find_best).                                *)
(*                                                                         *)
(* A 64-bit word is modelled as the set of its set bit positions (0..63),  *)
(* so that every shift, mask and xor of the code is computed bit by bit.   *)
(***************************************************************************)
EXTENDS Integers, Sequences, FiniteSets, TLC

VARIABLES
    \* ---- find_best (brute_force.rs) ----
    pc,          \* position of the driver: "start", "running", "done", "panicked"
    shape,       \* the board shape (W, H) given to find_best
    num_threads, \* size of the thread pool
    diameter,    \* find_best's `diameter`: graph_diameter of the pristine board
    available,   \* find_best's `available`: the top-level placed pieces
    next_job,    \* number of jobs of the pool's queue already taken by a worker
    states,      \* the shared visited table: a set of [key, value] entries
    results,     \* the results collector: a sequence of [max, placed]
    workers,     \* per pool thread: its job and its stack of dfs frames
    ret,         \* the value find_best returned
    \* ---- the piece model (pentonimo.rs) ----
    ppc,         \* "idle", "created" (a Pentonimo exists) or "iterating" (variants() was called)
    piece,       \* the Pentonimo
    iter,        \* the VariantIterator: the items not yet yielded
    yielded,     \* the items the iterator has yielded so far
    \* ---- the board and the diameter oracle (tile_map.rs, pathfinding.rs) ----
    board,       \* a TileMap
    stamped,     \* the placed pieces stamped onto it, in order
    call,        \* the last operation applied to the board, with its result
    \* ---- the candidate inventory (candidates.rs) ----
    inventory,   \* a Candidates: the packed 64-bit word
    inv_call,    \* the last operation applied to it, with its outcome
    \* ---- a single tile (tile.rs) ----
    tile,        \* a Tile
    tile_log     \* the operations applied to it, each with the tile it was applied to

vars == <<pc, shape, num_threads, diameter, available, next_job, states,
          results, workers, ret, ppc, piece, iter, yielded, board, stamped, call,
          inventory, inv_call, tile, tile_log>>

searchVars == <<pc, shape, num_threads, diameter, available, next_job, states,
                results, workers, ret>>
pieceVars == <<ppc, piece, iter, yielded>>
boardVars == <<board, stamped, call>>
candVars == <<inventory, inv_call>>
tileVars == <<tile, tile_log>>

Panic == "panic"

(***************************************************************************)
(* 64-bit words as sets of bit positions.                                  *)
(***************************************************************************)
Bits64 == 0 .. 63

Pow2(n) == 2 ^ n

\* the bits of a small non-negative number (below 2^16)
BitsOf(n) == {k \in 0 .. 15 : (n \div Pow2(k)) % 2 = 1}

\* the number whose bits are the set S (S within 0..15)
RECURSIVE ValueOf(_)
ValueOf(S) ==
    IF S = {} THEN 0
    ELSE LET k == CHOOSE b \in S : TRUE IN Pow2(k) + ValueOf(S \ {k})

\* a u64 literal from its eight bytes, least significant byte first
FromBytes(bytes) == {8 * r + k : r \in 0 .. 7, k \in 0 .. 7} \cap
                    {i \in Bits64 : (bytes[(i \div 8) + 1] \div Pow2(i % 8)) % 2 = 1}

Shl(S, d) == {i + d : i \in {j \in S : j + d < 64}}
Shr(S, d) == {i - d : i \in {j \in S : j >= d}}
Xor(A, B) == (A \ B) \cup (B \ A)
Not(S) == Bits64 \ S

\* 0x0101_0101_0101_0101 * n for n < 256: n repeated in every byte (no carry)
Mul0101(n) == UNION {Shl(BitsOf(n), 8 * r) : r \in 0 .. 7}

(***************************************************************************)
(* tile.rs: the 8x8 bit tile.  Bit 8*y + x is the cell (x, y).             *)
(***************************************************************************)
Tile_empty == {}
Tile_full == Bits64

Tile_get(t, x, y) == (8 * y + x) \in t

Tile_is_empty(t) == t = {}

\* a shift that does not mask out the bits that left their row
Tile_shift_x_unmasked(t, d) ==
    IF d > 0 THEN Shl(t, d) ELSE IF d < 0 THEN Shr(t, -d) ELSE t

Tile_shift_x(t, d) ==
    IF d > 0 THEN Shl(t, d) \cap Not(Mul0101(Pow2(d) - 1))
    ELSE IF d < 0 THEN Shr(t, -d) \cap Not(Shl(Mul0101(Pow2(-d) - 1), 8 - (-d)))
    ELSE t

Tile_shift_y(t, d) ==
    IF d > 0 THEN Shl(t, d * 8) ELSE Shr(t, (-d) * 8)

Tile_flip_xy(t) == {63 - i : i \in t}

\* a row operation that turns each row by one cell instead of mirroring it
Tile_flip_x_turned(t) == {8 * (i \div 8) + (((i % 8) + 1) % 8) : i \in t}

Tile_flip_x(t) == {8 * (i \div 8) + (7 - (i % 8)) : i \in t}

Tile_flip_y(t) == {8 * (7 - (i \div 8)) + (i % 8) : i \in t}

Tile_transpose(t) ==
    LET t1 == Xor(t, Shr(t, 7)) \cap FromBytes(<<170, 0, 170, 0, 170, 0, 170, 0>>)
        g1 == Xor(Xor(t, t1), Shl(t1, 7))
        t2 == Xor(g1, Shr(g1, 14)) \cap FromBytes(<<204, 204, 0, 0, 204, 204, 0, 0>>)
        g2 == Xor(Xor(g1, t2), Shl(t2, 14))
        t3 == Xor(g2, Shr(g2, 28)) \cap FromBytes(<<240, 240, 240, 240, 0, 0, 0, 0>>)
    IN  Xor(Xor(g2, t3), Shl(t3, 28))

Rotate == {"Left", "Right", "Full"}

Tile_rotate(t, rotate) ==
    CASE rotate = "Left" -> Tile_flip_y(Tile_transpose(t))
      [] rotate = "Right" -> Tile_flip_x(Tile_transpose(t))
      [] rotate = "Full" -> Tile_flip_xy(t)

Tile_fill_bottom(n_rows) ==
    UNION {Shr(FromBytes(<<0, 0, 0, 0, 0, 0, 0, 255>>), i * 8) : i \in 0 .. n_rows - 1}

\* a fill that sets no column
Tile_fill_nothing(n_cols) == Tile_empty

Tile_fill_right(n_cols) ==
    UNION {Shr(FromBytes(<<128, 128, 128, 128, 128, 128, 128, 128>>), i) : i \in 0 .. n_cols - 1}

(***************************************************************************)
(* pentonimo.rs: the piece model.                                          *)
(***************************************************************************)
\* PentonimoKind::VARIANTS, in declaration order (kind as u8 = position - 1)
PentonimoKind == <<"F", "L", "N", "P", "T", "U", "V", "W", "I", "X", "Y", "Z">>

Kinds == {PentonimoKind[i] : i \in 1 .. Len(PentonimoKind)}

\* `kind as u8`
KindAsU8(kind) == (CHOOSE i \in 1 .. Len(PentonimoKind) : PentonimoKind[i] = kind) - 1

\* const fn pentonimo(positions): rows of 5 cells, 1 for b'x' and 0 for b'.'
pentonimo(positions) ==
    {8 * y + x : x \in 0 .. 4, y \in 0 .. 4} \cap
    {i \in Bits64 : (i % 8) < 5 /\ (i \div 8) < 5 /\ positions[(i \div 8) + 1][(i % 8) + 1] = 1}

\* PentonimoBounds::new(x, y) for the ranges x = sx..ex, y = sy..ey
Bounds_new(sx, ex, sy, ey) == [start_x |-> sx, end_x |-> ex, start_y |-> sy, end_y |-> ey]

Rows(r1, r2, r3, r4, r5) == <<r1, r2, r3, r4, r5>>

generator_tile(kind) ==
    CASE kind = "F" -> <<pentonimo(Rows(<<0,1,1,0,0>>, <<1,1,0,0,0>>, <<0,1,0,0,0>>, <<0,0,0,0,0>>, <<0,0,0,0,0>>)),
                         Bounds_new(0, 3, 0, 3)>>
      [] kind = "L" -> <<pentonimo(Rows(<<1,0,0,0,0>>, <<1,0,0,0,0>>, <<1,0,0,0,0>>, <<1,1,0,0,0>>, <<0,0,0,0,0>>)),
                         Bounds_new(0, 2, 0, 4)>>
      [] kind = "N" -> <<pentonimo(Rows(<<1,0,0,0,0>>, <<1,0,0,0,0>>, <<1,1,0,0,0>>, <<0,1,0,0,0>>, <<0,0,0,0,0>>)),
                         Bounds_new(0, 2, 0, 4)>>
      [] kind = "P" -> <<pentonimo(Rows(<<1,1,0,0,0>>, <<1,1,0,0,0>>, <<1,0,0,0,0>>, <<0,0,0,0,0>>, <<0,0,0,0,0>>)),
                         Bounds_new(0, 2, 0, 3)>>
      [] kind = "T" -> <<pentonimo(Rows(<<1,1,1,0,0>>, <<0,1,0,0,0>>, <<0,1,0,0,0>>, <<0,0,0,0,0>>, <<0,0,0,0,0>>)),
                         Bounds_new(0, 3, 0, 3)>>
      [] kind = "U" -> <<pentonimo(Rows(<<1,0,1,0,0>>, <<1,1,1,0,0>>, <<0,0,0,0,0>>, <<0,0,0,0,0>>, <<0,0,0,0,0>>)),
                         Bounds_new(0, 3, 0, 2)>>
      [] kind = "V" -> <<pentonimo(Rows(<<1,0,0,0,0>>, <<1,0,0,0,0>>, <<1,1,1,0,0>>, <<0,0,0,0,0>>, <<0,0,0,0,0>>)),
                         Bounds_new(0, 3, 0, 3)>>
      [] kind = "W" -> <<pentonimo(Rows(<<1,0,0,0,0>>, <<1,1,0,0,0>>, <<0,1,1,0,0>>, <<0,0,0,0,0>>, <<0,0,0,0,0>>)),
                         Bounds_new(0, 3, 0, 3)>>
      [] kind = "I" -> <<pentonimo(Rows(<<1,0,0,0,0>>, <<1,0,0,0,0>>, <<1,0,0,0,0>>, <<1,0,0,0,0>>, <<1,0,0,0,0>>)),
                         Bounds_new(0, 1, 0, 5)>>
      [] kind = "X" -> <<pentonimo(Rows(<<0,1,0,0,0>>, <<1,1,1,0,0>>, <<0,1,0,0,0>>, <<0,0,0,0,0>>, <<0,0,0,0,0>>)),
                         Bounds_new(0, 3, 0, 3)>>
      [] kind = "Y" -> <<pentonimo(Rows(<<1,0,0,0,0>>, <<1,1,0,0,0>>, <<1,0,0,0,0>>, <<1,0,0,0,0>>, <<0,0,0,0,0>>)),
                         Bounds_new(0, 2, 0, 4)>>
      [] kind = "Z" -> <<pentonimo(Rows(<<1,1,0,0,0>>, <<0,1,0,0,0>>, <<0,1,1,0,0>>, <<0,0,0,0,0>>, <<0,0,0,0,0>>)),
                         Bounds_new(0, 3, 0, 3)>>

\* i8::clamp(0, 7)
Clamp07(v) == IF v < 0 THEN 0 ELSE IF v > 7 THEN 7 ELSE v

Min(a, b) == IF a < b THEN a ELSE b
Max(a, b) == IF a > b THEN a ELSE b

Bounds_rotate_point(x, y, rotate) ==
    LET cx == x - 4
        cy == y - 4
        r == CASE rotate = "Left" -> <<cy, -cx>>
               [] rotate = "Right" -> <<-cy, cx>>
               [] rotate = "Full" -> <<-cx, -cy>>
    IN  <<r[1] + 4, r[2] + 4>>

Bounds_shift_x(b, d) ==
    [b EXCEPT !.start_x = Clamp07(b.start_x + d), !.end_x = Clamp07(b.end_x + d)]

Bounds_shift_y(b, d) ==
    [b EXCEPT !.start_y = Clamp07(b.start_y + d), !.end_y = Clamp07(b.end_y + d)]

Bounds_flip_x(b) == [b EXCEPT !.start_x = 8 - b.end_x, !.end_x = 8 - b.start_x]

Bounds_flip_y(b) == [b EXCEPT !.start_y = 8 - b.end_y, !.end_y = 8 - b.start_y]

Bounds_flip_xy(b) == Bounds_flip_y(Bounds_flip_x(b))

Bounds_rotate(b, rotate) ==
    LET p1 == Bounds_rotate_point(b.start_x, b.start_y, rotate)
        p2 == Bounds_rotate_point(b.end_x, b.end_y, rotate)
    IN  [start_x |-> Min(p1[1], p2[1]), end_x |-> Max(p1[1], p2[1]),
         start_y |-> Min(p1[2], p2[2]), end_y |-> Max(p1[2], p2[2])]

Bounds_normalize(b) ==
    [start_x |-> 0, end_x |-> b.end_x - b.start_x,
     start_y |-> 0, end_y |-> b.end_y - b.start_y]

Pentonimo_new(kind) ==
    LET g == generator_tile(kind) IN [kind |-> kind, tile |-> g[1], bounds |-> g[2]]

Pentonimo_shape(p) == <<p.bounds.end_x - p.bounds.start_x, p.bounds.end_y - p.bounds.start_y>>

Pentonimo_rotate(p, rotate) ==
    [kind |-> p.kind, tile |-> Tile_rotate(p.tile, rotate), bounds |-> Bounds_rotate(p.bounds, rotate)]

Pentonimo_shift_x(p, d) ==
    [kind |-> p.kind, tile |-> Tile_shift_x(p.tile, d), bounds |-> Bounds_shift_x(p.bounds, d)]

Pentonimo_shift_y(p, d) ==
    [kind |-> p.kind, tile |-> Tile_shift_y(p.tile, d), bounds |-> Bounds_shift_y(p.bounds, d)]

Pentonimo_flip_x(p) ==
    [kind |-> p.kind, tile |-> Tile_flip_x(p.tile), bounds |-> Bounds_flip_x(p.bounds)]

Pentonimo_flip_y(p) ==
    [kind |-> p.kind, tile |-> Tile_flip_y(p.tile), bounds |-> Bounds_flip_y(p.bounds)]

Pentonimo_normalize(p) ==
    [kind |-> p.kind,
     tile |-> Tile_shift_y(Tile_shift_x(p.tile, -p.bounds.start_x), -p.bounds.start_y),
     bounds |-> Bounds_normalize(p.bounds)]

\* Pentonimo::position: a normalized piece bound to a board offset
Pentonimo_position(p, x, y) == [pentonimo |-> Pentonimo_normalize(p), position |-> <<x, y>>]

\* the permutations! macro of Pentonimo::variants
FLIP_ROTATE(self) ==
    LET flipped == Pentonimo_flip_y(self)
    IN  <<self, Pentonimo_rotate(self, "Right"), Pentonimo_rotate(self, "Left"),
          Pentonimo_rotate(self, "Full"),
          flipped, Pentonimo_rotate(flipped, "Right"), Pentonimo_rotate(flipped, "Left"),
          Pentonimo_rotate(flipped, "Full")>>

ROTATE(self) ==
    <<self, Pentonimo_rotate(self, "Right"), Pentonimo_rotate(self, "Left"),
      Pentonimo_rotate(self, "Full")>>

ROTATE_HALF(self) == <<self, Pentonimo_rotate(self, "Right")>>

\* a variants() that takes Z, which is its own half turn, for half-rotational
Pentonimo_variants_half_Z(self) ==
    CASE self.kind \in {"F", "L", "N", "P", "Y"} -> FLIP_ROTATE(self)
      [] self.kind \in {"T", "U", "V", "W"} -> ROTATE(self)
      [] self.kind \in {"I", "Z"} -> ROTATE_HALF(self)
      [] self.kind = "X" -> <<self>>

\* Pentonimo::variants: the items of the VariantIterator, in order
Pentonimo_variants(self) ==
    CASE self.kind \in {"F", "L", "N", "P", "Y"} -> FLIP_ROTATE(self)
      [] self.kind \in {"T", "U", "V", "W", "Z"} -> ROTATE(self)
      [] self.kind = "I" -> ROTATE_HALF(self)
      [] self.kind = "X" -> <<self>>

\* expected_count of the test number_of_variants
expected_count(kind) ==
    CASE kind \in {"F", "L", "N", "P", "Y"} -> 8
      [] kind \in {"T", "U", "V", "W", "Z"} -> 4
      [] kind = "I" -> 2
      [] kind = "X" -> 1

\* Pentonimo::shift_split: the four tile-aligned fragments of a piece shifted by (x, y)
Pentonimo_shift_split(self, x, y) ==
    LET part(i, j) ==
            LET dx == x - 8 * i
                dy == y - 8 * j
                shifted_bounds == Bounds_shift_y(Bounds_shift_x(self.bounds, dx), dy)
                wx == shifted_bounds.end_x - shifted_bounds.start_x
                wy == shifted_bounds.end_y - shifted_bounds.start_y
            IN  IF wx > 0 /\ wy > 0
                THEN Tile_shift_y(Tile_shift_x(self.tile, dx), dy)
                ELSE Tile_empty
    IN  <<part(0, 0), part(1, 0), part(0, 1), part(1, 1)>>

(***************************************************************************)
(* candidates.rs: twelve 5-bit counters packed into one u64.               *)
(* An operation that can panic comes as a pair: O_panics says whether the  *)
(* call aborts, O gives its result when it does not.                       *)
(***************************************************************************)
Candidates_mask(i) == Shl(BitsOf(31), 5 * i)

Candidates_get(c, i) == ValueOf(Shr(c \cap Candidates_mask(i), 5 * i)) % 256

\* assert!(v < 0b100000)
Candidates_set_panics(c, i, v) == ~(v < 32)

\* a set that does not clear the slot first
Candidates_set_or(c, i, v) == c \cup Shl(BitsOf(v), 5 * i)

Candidates_set(c, i, v) == (c \cap Not(Candidates_mask(i))) \cup Shl(BitsOf(v), 5 * i)

\* self.get(i).checked_sub(1).unwrap()
Candidates_decrement_panics(c, i) == Candidates_get(c, i) = 0

\* a decrement that leaves the word as it is
Candidates_decrement_nothing(c, i) == c

Candidates_decrement(c, i) == Candidates_set(c, i, Candidates_get(c, i) - 1)

\* Candidates::new(candidates) for a sequence of twelve counts
Candidates_new_panics(candidates) == \E i \in 1 .. Len(candidates) : ~(candidates[i] < 32)

Candidates_new(candidates) ==
    UNION {Shl(BitsOf(candidates[i]) \cap BitsOf(31), 5 * (i - 1)) : i \in 1 .. Len(candidates)}

(***************************************************************************)
(* tile_map.rs: the tiled board.                                           *)
(***************************************************************************)
div_ceil(a, b) == (a + b - 1) \div b

TileMap_tile_shape(m) == <<div_ceil(m.shape[1], 8), div_ceil(m.shape[2], 8)>>

TileMap_new(sh) ==
    LET tile_shape == <<div_ceil(sh[1], 8), div_ceil(sh[2], 8)>>
        remainder == <<sh[1] % 8, sh[2] % 8>>
        block_bottom == Tile_fill_bottom(8 - remainder[2])
        block_right == Tile_fill_right(8 - remainder[1])
        bottom == IF remainder[2] > 0
                  THEN {(tile_shape[2] - 1) * tile_shape[1] + x : x \in 0 .. tile_shape[1] - 1}
                  ELSE {}
        right == IF remainder[1] > 0
                 THEN {y * tile_shape[1] + tile_shape[1] - 1 : y \in 0 .. tile_shape[2] - 1}
                 ELSE {}
    IN  [tiles |-> [index \in 1 .. tile_shape[1] * tile_shape[2] |->
                        (IF (index - 1) \in bottom THEN block_bottom ELSE Tile_empty) \cup
                        (IF (index - 1) \in right THEN block_right ELSE Tile_empty)],
         shape |-> sh]

\* self.tiles[tile_index]: an index past the end of the vector panics
TileMap_get_tile_panics(m, tx, ty) == ~(tx + ty * TileMap_tile_shape(m)[1] < Len(m.tiles))

TileMap_get_tile(m, tx, ty) == m.tiles[tx + ty * TileMap_tile_shape(m)[1] + 1]

TileMap_get_panics(m, x, y) == TileMap_get_tile_panics(m, x \div 8, y \div 8)

TileMap_get(m, x, y) == Tile_get(TileMap_get_tile(m, x \div 8, y \div 8), x % 8, y % 8)

\* the loop of can_place from part i on: "false" at the first conflicting
\* fragment, "panic" at a fragment whose tile index is past the end
RECURSIVE can_place_from(_, _, _, _, _)
can_place_from(m, parts, tx, ty, i) ==
    IF i > 3 THEN "true"
    ELSE IF Tile_is_empty(parts[i + 1]) THEN can_place_from(m, parts, tx, ty, i + 1)
    ELSE IF TileMap_get_tile_panics(m, tx + (i % 2), ty + (i \div 2)) THEN Panic
    ELSE IF ~Tile_is_empty(TileMap_get_tile(m, tx + (i % 2), ty + (i \div 2)) \cap parts[i + 1])
    THEN "false"
    ELSE can_place_from(m, parts, tx, ty, i + 1)

can_place_outcome(m, rhs) ==
    can_place_from(m,
                   Pentonimo_shift_split(rhs.pentonimo, rhs.position[1] % 8, rhs.position[2] % 8),
                   rhs.position[1] \div 8, rhs.position[2] \div 8, 0)

TileMap_can_place_panics(m, rhs) == can_place_outcome(m, rhs) = Panic

TileMap_can_place(m, rhs) == can_place_outcome(m, rhs) = "true"

\* the tile index `map |= rhs` uses for fragment i
bitor_tile_index(m, rhs, i) ==
    (rhs.position[1] \div 8) + (i % 2)
        + ((rhs.position[2] \div 8) + (i \div 2)) * TileMap_tile_shape(m)[1]

TileMap_bitor_assign_panics(m, rhs) ==
    LET parts == Pentonimo_shift_split(rhs.pentonimo, rhs.position[1] % 8, rhs.position[2] % 8)
    IN  \E i \in 0 .. 3 : /\ ~Tile_is_empty(parts[i + 1])
                          /\ ~(bitor_tile_index(m, rhs, i) < Len(m.tiles))

\* `map |= rhs`: OR every non-empty fragment into its tile
TileMap_bitor_assign(m, rhs) ==
    LET parts == Pentonimo_shift_split(rhs.pentonimo, rhs.position[1] % 8, rhs.position[2] % 8)
    IN  [m EXCEPT !.tiles = [index \in 1 .. Len(m.tiles) |->
            m.tiles[index] \cup
            UNION {parts[i + 1] : i \in {j \in 0 .. 3 : bitor_tile_index(m, rhs, j) = index - 1}}]]

(***************************************************************************)
(* pathfinding.rs: the BFS diameter oracle.                                *)
(***************************************************************************)
Point(x, y) == <<x, y>>

\* OffsetIterator
Offsets == <<<<-1, 0>>, <<1, 0>>, <<0, -1>>, <<0, 1>>>>

index_for_point(sh, p) == p[1] + p[2] * sh[1]

\* the points pushed for one candidate: its free, unvisited in-board neighbours
Pushed(tile_map, visited, candidate) ==
    LET at(k) == Point(candidate[1] + Offsets[k][1], candidate[2] + Offsets[k][2])
        ok(k) == /\ ~(at(k)[1] < 0 \/ at(k)[1] >= tile_map.shape[1])
                 /\ ~(at(k)[2] < 0 \/ at(k)[2] >= tile_map.shape[2])
                 /\ ~TileMap_get(tile_map, at(k)[1], at(k)[2])
                 /\ index_for_point(tile_map.shape, at(k)) \notin visited
        push(k) == IF ok(k) THEN <<at(k)>> ELSE <<>>
    IN  push(1) \o push(2) \o push(3) \o push(4)

\* one pass over candidates_1, from its k-th element on
RECURSIVE Layer(_, _, _, _, _, _)
Layer(tile_map, candidates_1, k, visited, candidates_2, prev) ==
    IF k > Len(candidates_1)
    THEN [visited |-> visited, candidates_2 |-> candidates_2, prev |-> prev]
    ELSE LET v == visited \cup {index_for_point(tile_map.shape, candidates_1[k])}
             pushed == Pushed(tile_map, v, candidates_1[k])
         IN  Layer(tile_map, candidates_1, k + 1, v, candidates_2 \o pushed,
                   IF Len(pushed) > 0 THEN pushed[Len(pushed)] ELSE prev)

\* the loop `for i in 0u16..` of eccentricity
RECURSIVE Bfs(_, _, _, _, _)
Bfs(tile_map, i, candidates_1, visited, prev) ==
    IF candidates_1 = <<>> THEN [e |-> i, end |-> prev]
    ELSE LET l == Layer(tile_map, candidates_1, 1, visited, <<>>, prev)
         IN  Bfs(tile_map, i + 1, l.candidates_2, l.visited, l.prev)

\* the tile read of the start cell, or the write of its `visited` flag, is out of range
eccentricity_panics(tile_map, x, y) ==
    \/ TileMap_get_panics(tile_map, x, y)
    \/ /\ ~TileMap_get(tile_map, x, y)
       /\ ~(index_for_point(tile_map.shape, Point(x, y)) < tile_map.shape[1] * tile_map.shape[2])

eccentricity(tile_map, x, y) ==
    LET start == Point(x, y)
    IN  IF TileMap_get(tile_map, x, y) THEN [e |-> 0, end |-> start]
        ELSE Bfs(tile_map, 0, <<start>>, {index_for_point(tile_map.shape, start)}, start)

\* the start points of graph_diameter, in loop order: y over 0..shape.0, x over 0..shape.1
graph_diameter_starts(tile_map) ==
    [n \in 1 .. tile_map.shape[1] * tile_map.shape[2] |->
        Point((n - 1) % tile_map.shape[2], (n - 1) \div tile_map.shape[2])]

graph_diameter_panics(tile_map) ==
    \E n \in 1 .. Len(graph_diameter_starts(tile_map)) :
        eccentricity_panics(tile_map, graph_diameter_starts(tile_map)[n][1],
                            graph_diameter_starts(tile_map)[n][2])

\* the two loops of graph_diameter from the n-th start point on
RECURSIVE graph_diameter_from(_, _, _, _, _)
graph_diameter_from(tile_map, starts, n, maximum, max_coords) ==
    IF n > Len(starts) THEN [d |-> maximum, path |-> max_coords]
    ELSE LET r == eccentricity(tile_map, starts[n][1], starts[n][2])
         IN  IF n = 1 \/ r.e > maximum
             THEN graph_diameter_from(tile_map, starts, n + 1, r.e, <<starts[n], r.end>>)
             ELSE graph_diameter_from(tile_map, starts, n + 1, maximum, max_coords)

graph_diameter(tile_map) ==
    graph_diameter_from(tile_map, graph_diameter_starts(tile_map), 1, 0, <<>>)

(***************************************************************************)
(* brute_force.rs: the search.                                             *)
(***************************************************************************)
StateKey(map, avail) == [map |-> map, available |-> avail]

\* the offsets `for x in 0..px { for y in 0..py` seeds for one variant
seed_positions(variant, px, py) ==
    [n \in 1 .. px * py |-> Pentonimo_position(variant, (n - 1) \div py, (n - 1) % py)]

\* the same with the ranges 0..=px and 0..=py
seed_positions_inclusive(variant, px, py) ==
    [n \in 1 .. (px + 1) * (py + 1) |->
        Pentonimo_position(variant, (n - 1) \div (py + 1), (n - 1) % (py + 1))]

\* the body of the seeding loop for one variant: nothing when a checked_sub fails
seed_variant(sh, variant) ==
    LET dx == Pentonimo_shape(variant)[1]
        dy == Pentonimo_shape(variant)[2]
    IN  IF sh[1] < dx \/ sh[2] < dy THEN <<>>
        ELSE seed_positions(variant, sh[1] - dx, sh[2] - dy)

seed_variant_inclusive(sh, variant) ==
    LET dx == Pentonimo_shape(variant)[1]
        dy == Pentonimo_shape(variant)[2]
    IN  IF sh[1] < dx \/ sh[2] < dy THEN <<>>
        ELSE seed_positions_inclusive(variant, sh[1] - dx, sh[2] - dy)

\* StateKey::avaiable_variants for the inventory: the variants of every kind
\* whose count is positive, kind after kind
RECURSIVE avaiable_variants(_, _)
avaiable_variants(avail, k) ==
    IF k > Len(PentonimoKind) THEN <<>>
    ELSE (IF Candidates_get(avail, k - 1) > 0
          THEN Pentonimo_variants(Pentonimo_new(PentonimoKind[k]))
          ELSE <<>>) \o avaiable_variants(avail, k + 1)

RECURSIVE seed_from(_, _, _)
seed_from(sh, vs, k) ==
    IF k > Len(vs) THEN <<>> ELSE seed_variant(sh, vs[k]) \o seed_from(sh, vs, k + 1)

RECURSIVE seed_from_inclusive(_, _, _)
seed_from_inclusive(sh, vs, k) ==
    IF k > Len(vs) THEN <<>>
    ELSE seed_variant_inclusive(sh, vs[k]) \o seed_from_inclusive(sh, vs, k + 1)

AllOnes == [i \in 1 .. Len(PentonimoKind) |-> 1]

\* the seeding with inclusive offset ranges: every offset that fits the board
find_best_available_inclusive(sh) ==
    seed_from_inclusive(sh, avaiable_variants(Candidates_new(AllOnes), 1), 1)

\* find_best's `available`: the top-level placed pieces, in loop order
find_best_available(sh) == seed_from(sh, avaiable_variants(Candidates_new(AllOnes), 1), 1)

kind_of(positioned) == KindAsU8(positioned.pentonimo.kind)

\* a filter that keeps the placements of kinds the inventory no longer holds
new_available_any_kind(avail_slice, available_pieces, map) ==
    SelectSeq(avail_slice, LAMBDA positioned : TileMap_can_place(map, positioned))

\* the loop that fills new_available
new_available(avail_slice, available_pieces, map) ==
    SelectSeq(avail_slice,
              LAMBDA positioned :
                  /\ Candidates_get(available_pieces, kind_of(positioned)) > 0
                  /\ TileMap_can_place(map, positioned))

\* a dfs frame just after the pruning test
\* a discard test that also discards a call whose diameter equals the parent's
pruned_or_equal(d, prev_diameter) == d <= prev_diameter

\* `if diameter < prev_diameter`: the call is discarded
pruned(d, prev_diameter) == d < prev_diameter

Frame(key, d, avail_slice) ==
    [key |-> key, diameter |-> d, available |-> avail_slice, i |-> 1,
     current_max |-> d, placed |-> <<>>]

\* the caller's lines after `self.dfs(..)` returned: keep a strictly better child
dfs_return(f, max_diameter, new_placed) ==
    IF max_diameter > f.current_max
    THEN [f EXCEPT !.current_max = max_diameter,
                   !.placed = Append(new_placed, f.available[f.i]),
                   !.i = f.i + 1]
    ELSE [f EXCEPT !.i = f.i + 1]

contains_key(table, key) == \E e \in table : e.key = key

\* a table that keeps only the entry written last
insert_alone(table, key, value) == {[key |-> key, value |-> value]}

insert(table, key, value) ==
    {e \in table : e.key # key} \cup {[key |-> key, value |-> value]}

\* the pair without the job's own piece
worker_result_unpushed(max, placed, positioned) == [max |-> max, placed |-> placed]

\* the pair with the job's own piece pushed twice
worker_result_twice(max, placed, positioned) ==
    [max |-> max, placed |-> Append(Append(placed, positioned), positioned)]

\* the job's `placed.push(positioned)` and the pair it pushes to results
worker_result(max, placed, positioned) == [max |-> max, placed |-> Append(placed, positioned)]

\* a reduction that ignores the collected results
reduce_pristine(rs, d) == [max |-> d, placed |-> <<>>]

\* a reduction that takes the first result pushed
reduce_first(rs, d) == IF rs = <<>> THEN [max |-> d, placed |-> <<>>] ELSE rs[1]

\* into_iter().max_by_key(|x| x.0).unwrap_or((diameter, Vec::new())): the last
\* of the maximal results
reduce(rs, d) ==
    IF rs = <<>> THEN [max |-> d, placed |-> <<>>]
    ELSE rs[CHOOSE i \in 1 .. Len(rs) :
                /\ \A j \in 1 .. Len(rs) : rs[j].max <= rs[i].max
                /\ \A j \in i + 1 .. Len(rs) : rs[j].max < rs[i].max]

IdleWorker == [status |-> "idle", job |-> <<>>, stack |-> <<>>, max |-> 0, placed |-> <<>>]

(***************************************************************************)
(* The variables of the parts a specification does not exercise.           *)
(***************************************************************************)
IdleSearch ==
    /\ pc = "idle" /\ shape = <<0, 0>> /\ num_threads = 0 /\ diameter = 0
    /\ available = <<>> /\ next_job = 0 /\ states = {} /\ results = <<>>
    /\ workers = <<>> /\ ret = <<>>

IdlePiece == ppc = "idle" /\ piece = Pentonimo_new("F") /\ iter = <<>> /\ yielded = <<>>

IdleBoard == board = TileMap_new(<<1, 1>>) /\ stamped = <<>> /\ call = [op |-> "idle"]

IdleCand == inventory = {} /\ inv_call = [op |-> "idle"]

IdleTile == tile = Tile_empty /\ tile_log = <<>>

(***************************************************************************)
(* SpecPiece: pieces are created, transformed and enumerated.              *)
(***************************************************************************)
InitPiece ==
    /\ ppc = "created"
    /\ piece \in {Pentonimo_new(kind) : kind \in Kinds}
    /\ iter = <<>>
    /\ yielded = <<>>
    /\ IdleSearch /\ IdleBoard /\ IdleCand /\ IdleTile

\* Pentonimo::rotate / flip_x / flip_y on the piece
PieceRotate(rotate) ==
    /\ ppc = "created"
    /\ piece' = Pentonimo_rotate(piece, rotate)
    /\ UNCHANGED <<ppc, iter, yielded>>
    /\ UNCHANGED <<searchVars, boardVars, candVars, tileVars>>

PieceFlipX ==
    /\ ppc = "created"
    /\ piece' = Pentonimo_flip_x(piece)
    /\ UNCHANGED <<ppc, iter, yielded>>
    /\ UNCHANGED <<searchVars, boardVars, candVars, tileVars>>

PieceFlipY ==
    /\ ppc = "created"
    /\ piece' = Pentonimo_flip_y(piece)
    /\ UNCHANGED <<ppc, iter, yielded>>
    /\ UNCHANGED <<searchVars, boardVars, candVars, tileVars>>

\* piece.variants(): the iterator holds all forms
PieceVariants ==
    /\ ppc = "created"
    /\ ppc' = "iterating"
    /\ iter' = Pentonimo_variants(piece)
    /\ yielded' = <<>>
    /\ UNCHANGED piece
    /\ UNCHANGED <<searchVars, boardVars, candVars, tileVars>>

\* VariantIterator::next yielding Some(item)
IterNext ==
    /\ ppc = "iterating"
    /\ iter # <<>>
    /\ yielded' = Append(yielded, Head(iter))
    /\ iter' = Tail(iter)
    /\ UNCHANGED <<ppc, piece>>
    /\ UNCHANGED <<searchVars, boardVars, candVars, tileVars>>

NextPiece ==
    \/ \E rotate \in Rotate : PieceRotate(rotate)
    \/ PieceFlipX
    \/ PieceFlipY
    \/ PieceVariants
    \/ IterNext

SpecPiece == InitPiece /\ [][NextPiece]_vars

(***************************************************************************)
(* The inputs of the board specifications.                                 *)
(***************************************************************************)
\* every variant of every kind (63 pieces, Z's forms twice over)
AllVariants ==
    UNION {{Pentonimo_variants(Pentonimo_new(kind))[i] :
                i \in 1 .. Len(Pentonimo_variants(Pentonimo_new(kind)))} : kind \in Kinds}

\* the piece lies within the board's logical extent (the caller's duty before position())
Fits(sh, p, x, y) == x + Pentonimo_shape(p)[1] <= sh[1] /\ y + Pentonimo_shape(p)[2] <= sh[2]

\* largest side, largest area and largest number of stamps of the boards given to the
\* diameter oracle
DiamMaxSide == 5
DiamMaxArea == 10
DiamMaxStamps == 1

DiamShapes == {sh \in (1 .. DiamMaxSide) \X (1 .. DiamMaxSide) : sh[1] * sh[2] <= DiamMaxArea}

\* largest side of the boards of SpecMap (one tile, or two tiles each way), and
\* largest number of stamps
MapMaxSide == 9
MapMaxStamps == 2
\* offsets are taken from the last StraddleSpan columns/rows of the first tile
StraddleSpan == 2

MapShapes == (1 .. MapMaxSide) \X (1 .. MapMaxSide)

MapOffsets == {x \in 0 .. 7 : x + StraddleSpan >= 8}

(***************************************************************************)
(* SpecDiam: small boards, stamped with pieces that fit, are given to      *)
(* eccentricity and graph_diameter.                                        *)
(***************************************************************************)
InitDiam ==
    /\ board \in {TileMap_new(sh) : sh \in DiamShapes}
    /\ stamped = <<>>
    /\ call = [op |-> "new"]
    /\ IdleSearch /\ IdlePiece /\ IdleCand /\ IdleTile

\* assert!(map.can_place(p)); map |= p;
Stamp(rhs, limit) ==
    /\ Len(stamped) < limit
    /\ ~TileMap_can_place_panics(board, rhs)
    /\ TileMap_can_place(board, rhs)
    /\ ~TileMap_bitor_assign_panics(board, rhs)
    /\ board' = TileMap_bitor_assign(board, rhs)
    /\ stamped' = Append(stamped, rhs)
    /\ call' = [op |-> "stamp", rhs |-> rhs, before |-> board]
    /\ UNCHANGED <<searchVars, pieceVars, candVars, tileVars>>

DiamStamp ==
    \E p \in AllVariants, x \in 0 .. DiamMaxSide, y \in 0 .. DiamMaxSide :
        /\ Fits(board.shape, p, x, y)
        /\ Stamp(Pentonimo_position(p, x, y), DiamMaxStamps)

\* scratch.eccentricity(&board, x, y) for a cell of the board
Eccentricity ==
    \E x \in 0 .. board.shape[1] - 1, y \in 0 .. board.shape[2] - 1 :
        /\ call' = IF eccentricity_panics(board, x, y)
                   THEN [op |-> "eccentricity", x |-> x, y |-> y, panics |-> TRUE]
                   ELSE LET r == eccentricity(board, x, y)
                        IN  [op |-> "eccentricity", x |-> x, y |-> y, panics |-> FALSE,
                             e |-> r.e, end |-> r.end]
        /\ UNCHANGED <<board, stamped, searchVars, pieceVars, candVars, tileVars>>

\* scratch.graph_diameter(&board)
GraphDiameter ==
    /\ call' = IF graph_diameter_panics(board)
               THEN [op |-> "graph_diameter", panics |-> TRUE]
               ELSE LET r == graph_diameter(board)
                    IN  [op |-> "graph_diameter", panics |-> FALSE, d |-> r.d, path |-> r.path]
    /\ UNCHANGED <<board, stamped, searchVars, pieceVars, candVars, tileVars>>

NextDiam ==
    \/ DiamStamp
    \/ Eccentricity
    \/ GraphDiameter

SpecDiam == InitDiam /\ [][NextDiam]_vars

(***************************************************************************)
(* SpecMap: boards of several tiles, stamped with pieces that straddle     *)
(* the tile boundaries.                                                    *)
(***************************************************************************)
InitMap ==
    /\ board \in {TileMap_new(sh) : sh \in MapShapes}
    /\ stamped = <<>>
    /\ call = [op |-> "new"]
    /\ IdleSearch /\ IdlePiece /\ IdleCand /\ IdleTile

MapStamp ==
    \E p \in AllVariants, x \in MapOffsets, y \in MapOffsets :
        /\ Fits(board.shape, p, x, y)
        /\ Stamp(Pentonimo_position(p, x, y), MapMaxStamps)

\* `map |= rhs` by a caller that did not ask can_place first, for a placement
\* can_place refuses: the stamp has no check of its own
MapStampInfeasible ==
    \E p \in AllVariants, x \in MapOffsets, y \in MapOffsets :
        LET rhs == Pentonimo_position(p, x, y)
        IN  /\ Fits(board.shape, p, x, y)
            /\ Len(stamped) < MapMaxStamps
            /\ ~TileMap_can_place_panics(board, rhs)
            /\ ~TileMap_can_place(board, rhs)
            /\ board' = IF TileMap_bitor_assign_panics(board, rhs) THEN board
                         ELSE TileMap_bitor_assign(board, rhs)
            /\ stamped' = Append(stamped, rhs)
            /\ call' = [op |-> "stamp_infeasible", rhs |-> rhs, before |-> board,
                         panics |-> TileMap_bitor_assign_panics(board, rhs)]
            /\ UNCHANGED <<searchVars, pieceVars, candVars, tileVars>>

NextMap ==
    \/ MapStamp
    \/ MapStampInfeasible

SpecMap == InitMap /\ [][NextMap]_vars

(***************************************************************************)
(* SpecCand: an inventory is built, written and decremented.  A panicking  *)
(* call unwinds before it writes, so the caller's word is as it was.       *)
(***************************************************************************)
\* the twelve slots of [u8; 12], addressed by `kind as u8`
NumSlots == 12
CandSlots == 0 .. NumSlots - 1
\* counts (u8) handed to set and new: the ends of the 5-bit range and beyond
CandValues == {0, 1, 2, 31, 32, 255}
MaxCandOps == 2

\* the arrays handed to new: [1; 12] as find_best builds it, with one count replaced
CandArrays ==
    {[j \in 1 .. NumSlots |-> IF j = i + 1 THEN v ELSE 1] : i \in CandSlots, v \in CandValues}

InitCand ==
    /\ inventory = Candidates_new([j \in 1 .. NumSlots |-> 1])
    /\ inv_call = [op |-> "new", n |-> 0]
    /\ IdleSearch /\ IdlePiece /\ IdleBoard /\ IdleTile

CandSet ==
    \E i \in CandSlots, v \in CandValues :
        /\ inv_call.n < MaxCandOps
        /\ inventory' = IF Candidates_set_panics(inventory, i, v) THEN inventory
                         ELSE Candidates_set(inventory, i, v)
        /\ inv_call' = [op |-> "set", i |-> i, v |-> v, before |-> inventory,
                        panics |-> Candidates_set_panics(inventory, i, v),
                        n |-> inv_call.n + 1]
        /\ UNCHANGED <<searchVars, pieceVars, boardVars, tileVars>>

CandDecrement ==
    \E i \in CandSlots :
        /\ inv_call.n < MaxCandOps
        /\ inventory' = IF Candidates_decrement_panics(inventory, i) THEN inventory
                         ELSE Candidates_decrement(inventory, i)
        /\ inv_call' = [op |-> "decrement", i |-> i, before |-> inventory,
                        panics |-> Candidates_decrement_panics(inventory, i),
                        n |-> inv_call.n + 1]
        /\ UNCHANGED <<searchVars, pieceVars, boardVars, tileVars>>

CandNew ==
    \E candidates \in CandArrays :
        /\ inv_call.n < MaxCandOps
        /\ inventory' = IF Candidates_new_panics(candidates) THEN inventory
                         ELSE Candidates_new(candidates)
        /\ inv_call' = [op |-> "new_from", candidates |-> candidates, before |-> inventory,
                        panics |-> Candidates_new_panics(candidates),
                        n |-> inv_call.n + 1]
        /\ UNCHANGED <<searchVars, pieceVars, boardVars, tileVars>>

NextCand ==
    \/ CandSet
    \/ CandDecrement
    \/ CandNew

SpecCand == InitCand /\ [][NextCand]_vars

(***************************************************************************)
(* SpecTile: a tile is transformed (as variants() does) and then shifted   *)
(* into place (as shift_split does).  tile_log keeps every operation with  *)
(* the tile it was applied to; a shift is the last operation of a run.     *)
(***************************************************************************)
MaxTileOps == 4
MaxOpsBeforeShift == 1

\* the shift distances of the contract: -8 < d < 8
ShiftRange == -7 .. 7

\* the tiles of the twelve pieces, every single cell, the full tile and two fills
TileInputs ==
    {Pentonimo_new(PentonimoKind[k]).tile : k \in 1 .. Len(PentonimoKind)}
        \cup {{i} : i \in Bits64}
        \cup {Tile_full, Tile_fill_right(3), Tile_fill_bottom(2)}

InitTile ==
    /\ tile \in TileInputs
    /\ tile_log = <<>>
    /\ IdleSearch /\ IdlePiece /\ IdleBoard /\ IdleCand

Shifted == \E j \in 1 .. Len(tile_log) : tile_log[j].op \in {"shift_x", "shift_y"}

Transform(op, arg, result) ==
    /\ Len(tile_log) < MaxTileOps
    /\ ~Shifted
    /\ tile' = result
    /\ tile_log' = Append(tile_log, [op |-> op, arg |-> arg, before |-> tile])
    /\ UNCHANGED <<searchVars, pieceVars, boardVars, candVars>>

TileRotate == \E rotate \in Rotate : Transform("rotate", rotate, Tile_rotate(tile, rotate))

TileFlipX == Transform("flip_x", "", Tile_flip_x(tile))

TileTranspose == Transform("transpose", "", Tile_transpose(tile))

Shift(op, d, result) ==
    /\ Len(tile_log) <= MaxOpsBeforeShift
    /\ ~Shifted
    /\ tile' = result
    /\ tile_log' = Append(tile_log, [op |-> op, arg |-> d, before |-> tile])
    /\ UNCHANGED <<searchVars, pieceVars, boardVars, candVars>>

TileShiftX == \E d \in ShiftRange : Shift("shift_x", d, Tile_shift_x(tile, d))

TileShiftY == \E d \in ShiftRange : Shift("shift_y", d, Tile_shift_y(tile, d))

NextTile ==
    \/ TileRotate
    \/ TileFlipX
    \/ TileTranspose
    \/ TileShiftX
    \/ TileShiftY

SpecTile == InitTile /\ [][NextTile]_vars

(***************************************************************************)
(* Spec: find_best with its pool of worker threads.  A worker takes one    *)
(* step per access to what the threads share: the pool's job queue, the    *)
(* visited table `states` and the `results` collector; what it computes on *)
(* its own data between two accesses belongs to the step.                  *)
(***************************************************************************)
\* largest side and area of the boards searched, largest pool, and the largest
\* number of top-level jobs searched by more than one thread
MaxSide == 10
MaxArea == 20
MaxThreads == 2
MaxConcurrentJobs == 6

SearchShapes == {sh \in (1 .. MaxSide) \X (1 .. MaxSide) : sh[1] * sh[2] <= MaxArea}

SearchInputs ==
    {in \in SearchShapes \X (1 .. MaxThreads) :
        in[2] = 1 \/ Len(find_best_available(in[1])) <= MaxConcurrentJobs}

Init ==
    /\ pc = "start"
    /\ \E in \in SearchInputs : shape = in[1] /\ num_threads = in[2]
    /\ diameter = 0 /\ available = <<>> /\ next_job = 0 /\ states = {}
    /\ results = <<>> /\ workers = <<>> /\ ret = <<>>
    /\ IdlePiece /\ IdleBoard /\ IdleCand /\ IdleTile

\* find_best up to the point where the jobs are queued
FindBest ==
    /\ pc = "start"
    /\ IF graph_diameter_panics(TileMap_new(shape))
       THEN /\ pc' = "panicked"
            /\ UNCHANGED <<diameter, available, workers>>
       ELSE /\ pc' = "running"
            /\ diameter' = graph_diameter(TileMap_new(shape)).d
            /\ available' = find_best_available(shape)
            /\ workers' = [t \in 1 .. num_threads |-> IdleWorker]
    /\ UNCHANGED <<shape, num_threads, next_job, states, results, ret, pieceVars, boardVars, candVars, tileVars>>

\* a panic inside a job unwinds the job; the pool thread is replaced
Unwind(t) == workers' = [workers EXCEPT ![t] = IdleWorker]

\* an idle pool thread takes the next job and runs it up to the first loop
\* iteration of its dfs call
Execute ==
    \E t \in 1 .. num_threads :
    /\ pc = "running"
    /\ workers[t].status = "idle"
    /\ next_job < Len(available)
    /\ next_job' = next_job + 1
    /\ LET positioned == available[next_job + 1]
           fresh == TileMap_new(shape)
           all == Candidates_new(AllOnes)
       IN  IF \/ TileMap_bitor_assign_panics(fresh, positioned)
              \/ Candidates_decrement_panics(all, kind_of(positioned))
              \/ graph_diameter_panics(TileMap_bitor_assign(fresh, positioned))
           THEN Unwind(t)
           ELSE LET map == TileMap_bitor_assign(fresh, positioned)
                    key == StateKey(map, Candidates_decrement(all, kind_of(positioned)))
                    d == graph_diameter(map).d
                    r == worker_result(d, <<>>, positioned)
                IN  workers' = [workers EXCEPT ![t] =
                        IF pruned(d, diameter)
                        THEN [status |-> "push", job |-> <<positioned>>, stack |-> <<>>,
                              max |-> r.max, placed |-> r.placed]
                        ELSE [status |-> "dfs", job |-> <<positioned>>,
                              stack |-> <<Frame(key, d, new_available(available, key.available, map))>>,
                              max |-> 0, placed |-> <<>>]]
    /\ UNCHANGED <<pc, shape, num_threads, diameter, available, states, results, ret,
                   pieceVars, boardVars, candVars, tileVars>>

\* one iteration of the loop `for &positioned in available` of the innermost
\* dfs call, with the entry of the recursive call it makes
DfsStep ==
    \E t \in 1 .. num_threads :
    /\ pc = "running"
    /\ workers[t].status = "dfs"
    /\ LET stack == workers[t].stack
           f == stack[Len(stack)]
       IN  /\ f.i <= Len(f.available)
           /\ LET positioned == f.available[f.i]
                  skip == [workers EXCEPT ![t].stack[Len(stack)].i = f.i + 1]
              IN  IF TileMap_can_place_panics(f.key.map, positioned) THEN Unwind(t)
                  ELSE IF ~TileMap_can_place(f.key.map, positioned) THEN workers' = skip
                  ELSE IF \/ TileMap_bitor_assign_panics(f.key.map, positioned)
                          \/ Candidates_decrement_panics(f.key.available, kind_of(positioned))
                  THEN Unwind(t)
                  ELSE LET map == TileMap_bitor_assign(f.key.map, positioned)
                           available_pieces ==
                               Candidates_decrement(f.key.available, kind_of(positioned))
                           key == StateKey(map, available_pieces)
                       IN  IF contains_key(states, key) THEN workers' = skip
                           ELSE IF graph_diameter_panics(map) THEN Unwind(t)
                           ELSE LET d == graph_diameter(map).d
                                IN  IF pruned(d, f.diameter)
                                    THEN workers' = [workers EXCEPT
                                             ![t].stack[Len(stack)] = dfs_return(f, d, <<>>)]
                                    ELSE workers' = [workers EXCEPT ![t].stack =
                                             Append(stack,
                                                    Frame(key, d,
                                                          new_available(f.available,
                                                                        available_pieces, map)))]
    /\ UNCHANGED <<pc, shape, num_threads, diameter, available, next_job, states, results,
                   ret, pieceVars, boardVars, candVars, tileVars>>

\* the end of the innermost dfs call: states.insert(key, diameter) and the return
DfsInsert ==
    \E t \in 1 .. num_threads :
    /\ pc = "running"
    /\ workers[t].status = "dfs"
    /\ LET stack == workers[t].stack
           f == stack[Len(stack)]
       IN  /\ f.i > Len(f.available)
           /\ states' = insert(states, f.key, f.diameter)
           /\ IF Len(stack) > 1
              THEN workers' = [workers EXCEPT ![t].stack =
                       Append(SubSeq(stack, 1, Len(stack) - 2),
                              dfs_return(stack[Len(stack) - 1], f.current_max, f.placed))]
              ELSE LET r == worker_result(f.current_max, f.placed, workers[t].job[1])
                   IN  workers' = [workers EXCEPT ![t] =
                           [status |-> "push", job |-> workers[t].job, stack |-> <<>>,
                            max |-> r.max, placed |-> r.placed]]
    /\ UNCHANGED <<pc, shape, num_threads, diameter, available, next_job, results, ret,
                   pieceVars, boardVars, candVars, tileVars>>

\* results.lock().unwrap().push((max, placed)), the end of the job
PushResult ==
    \E t \in 1 .. num_threads :
    /\ pc = "running"
    /\ workers[t].status = "push"
    /\ results' = Append(results, [max |-> workers[t].max, placed |-> workers[t].placed])
    /\ workers' = [workers EXCEPT ![t] = IdleWorker]
    /\ UNCHANGED <<pc, shape, num_threads, diameter, available, next_job, states, ret,
                   pieceVars, boardVars, candVars, tileVars>>

\* pool.join() returns when no job is queued or running; then the reduction
Join ==
    /\ pc = "running"
    /\ next_job = Len(available)
    /\ \A t \in 1 .. num_threads : workers[t].status = "idle"
    /\ ret' = <<reduce(results, diameter)>>
    /\ pc' = "done"
    /\ UNCHANGED <<shape, num_threads, diameter, available, next_job, states, results,
                   workers, pieceVars, boardVars, candVars, tileVars>>

Next ==
    \/ FindBest
    \/ Execute
    \/ DfsStep
    \/ DfsInsert
    \/ PushResult
    \/ Join

Spec == Init /\ [][Next]_vars

(***************************************************************************)
(* SpecWide: find_best on the smallest board where a job's piece leaves    *)
(* room for two more pieces below it, with one pool thread per job         *)
(* (PENTONIMO_NUM_THREADS set to the number of jobs).  Every thread takes  *)
(* its job from the queue; then the threads run in any order.  A thread    *)
(* that runs is not interrupted, so its job is one step: dfs is the        *)
(* recursive function of the code, with the visited table threaded through *)
(* it.  The board is a single tile, so no tile index leaves it.            *)
(***************************************************************************)
WideShapes == {<<6, 4>>}
\* only the threads of the last WideScheduled jobs of the queue get to run,
\* and at most MaxJobsRun of them
WideScheduled == 12
MaxJobsRun == 2

\* the element of a one-element set: {e(v) : v \in {value}} binds v to the
\* value once, where a LET would compute it again at every use
The(S) == CHOOSE v \in S : TRUE

RECURSIVE dfs(_, _, _, _)
RECURSIVE dfs_children(_, _, _, _, _, _, _)
\* the loop `for &positioned in available` of a dfs call from its i-th element
dfs_children(key, d, avail_slice, i, current_max, placed, table) ==
    IF i > Len(avail_slice) THEN [current_max |-> current_max, placed |-> placed, table |-> table]
    ELSE IF ~TileMap_can_place(key.map, avail_slice[i])
    THEN dfs_children(key, d, avail_slice, i + 1, current_max, placed, table)
    ELSE The({
        IF contains_key(table, child)
        THEN dfs_children(key, d, avail_slice, i + 1, current_max, placed, table)
        ELSE The({
            IF r.max > current_max
            THEN dfs_children(key, d, avail_slice, i + 1, r.max,
                              Append(r.placed, avail_slice[i]), r.table)
            ELSE dfs_children(key, d, avail_slice, i + 1, current_max, placed, r.table) :
            r \in {dfs(child, d, new_available(avail_slice, child.available, child.map),
                       table)}}) :
        child \in {StateKey(TileMap_bitor_assign(key.map, avail_slice[i]),
                            Candidates_decrement(key.available, kind_of(avail_slice[i])))}})

\* DfsState::dfs: the pair it returns and the visited table it leaves
dfs(key, prev_diameter, avail_slice, table) ==
    The({
        IF pruned(d, prev_diameter) THEN [max |-> d, placed |-> <<>>, table |-> table]
        ELSE The({[max |-> r.current_max, placed |-> r.placed,
                   table |-> insert(r.table, key, d)] :
                  r \in {dfs_children(key, d, avail_slice, 1, d, <<>>, table)}}) :
        d \in {graph_diameter(key.map).d}})

InitWide ==
    /\ pc = "start"
    /\ shape \in WideShapes
    /\ num_threads = Len(find_best_available(shape))
    /\ diameter = 0 /\ available = <<>> /\ next_job = 0 /\ states = {}
    /\ results = <<>> /\ workers = <<>> /\ ret = <<>>
    /\ IdlePiece /\ IdleBoard /\ IdleCand /\ IdleTile

\* every pool thread takes one job from the queue, in queue order
TakeJobs ==
    /\ pc = "running"
    /\ next_job = 0
    /\ available # <<>>
    /\ next_job' = Len(available)
    /\ workers' = [t \in 1 .. num_threads |->
                      [IdleWorker EXCEPT !.status = "taken", !.job = <<available[t]>>]]
    /\ UNCHANGED <<pc, shape, num_threads, diameter, available, states, results, ret,
                   pieceVars, boardVars, candVars, tileVars>>

\* a pool thread runs the job it took from its first line to its push
RunJob ==
    \E t \in (num_threads - WideScheduled + 1) .. num_threads :
        /\ pc = "running"
        /\ t \in DOMAIN workers
        /\ workers[t].status = "taken"
        /\ Len(results) < MaxJobsRun
        /\ LET positioned == workers[t].job[1]
               map == TileMap_bitor_assign(TileMap_new(shape), positioned)
               key == StateKey(map, Candidates_decrement(Candidates_new(AllOnes),
                                                         kind_of(positioned)))
           IN  \E r \in {dfs(key, diameter, new_available(available, key.available, map),
                              states)} :
                   /\ states' = r.table
                   /\ results' = Append(results, worker_result(r.max, r.placed, positioned))
        /\ workers' = [workers EXCEPT ![t] = IdleWorker]
        /\ UNCHANGED <<pc, shape, num_threads, diameter, available, next_job, ret,
                       pieceVars, boardVars, candVars, tileVars>>

NextWide ==
    \/ FindBest
    \/ TakeJobs
    \/ RunJob

SpecWide == InitWide /\ [][NextWide]_vars

(***************************************************************************)
(* SpecKeys: the state keys handed to dfs, without the diameters.  The     *)
(* board is the smallest on which a seeded placement starts in row 7 of a  *)
(* tile and the width does not exceed the height.  A job builds its key    *)
(* from the empty board and the full inventory and calls dfs; a dfs call   *)
(* builds the key of a child from its own.                                 *)
(***************************************************************************)
KeysShapes == {<<6, 9>>}
\* children are built below the first KeysExpanded jobs of the queue only,
\* and keys hold at most MaxPlaced placements
KeysExpanded == 1
MaxPlaced == 2

InitKeys ==
    /\ board \in {TileMap_new(sh) : sh \in KeysShapes}
    /\ stamped = <<>>
    /\ call = [op |-> "new"]
    /\ inventory = Candidates_new(AllOnes)
    /\ inv_call = [op |-> "new"]
    /\ IdleSearch /\ IdlePiece /\ IdleTile

\* the job closure up to its call of dfs: `map |= positioned` on the new
\* board, decrement on [1; 12]
KeysJob ==
    /\ stamped = <<>>
    /\ \E top \in {find_best_available(board.shape)} :
       \E j \in DOMAIN top :
          /\ ~TileMap_bitor_assign_panics(board, top[j])
          /\ ~Candidates_decrement_panics(inventory, kind_of(top[j]))
          /\ board' = TileMap_bitor_assign(board, top[j])
          /\ inventory' = Candidates_decrement(inventory, kind_of(top[j]))
          /\ stamped' = <<top[j]>>
          /\ call' = [op |-> "job", job |-> j, before |-> board]
          /\ inv_call' = [op |-> "decrement", i |-> kind_of(top[j]), before |-> inventory]
    /\ UNCHANGED <<searchVars, pieceVars, tileVars>>

\* one iteration of the loop of dfs that passes can_place: the key of the child
KeysChild ==
    /\ stamped # <<>>
    /\ Len(stamped) < MaxPlaced
    /\ call.job <= KeysExpanded
    /\ \E avail_slice \in {new_available(find_best_available(board.shape), inventory, board)} :
       \E i \in DOMAIN avail_slice :
          /\ ~TileMap_can_place_panics(board, avail_slice[i])
          /\ TileMap_can_place(board, avail_slice[i])
          /\ ~TileMap_bitor_assign_panics(board, avail_slice[i])
          /\ ~Candidates_decrement_panics(inventory, kind_of(avail_slice[i]))
          /\ board' = TileMap_bitor_assign(board, avail_slice[i])
          /\ inventory' = Candidates_decrement(inventory, kind_of(avail_slice[i]))
          /\ stamped' = Append(stamped, avail_slice[i])
          /\ call' = [op |-> "child", job |-> call.job, before |-> board]
          /\ inv_call' = [op |-> "decrement", i |-> kind_of(avail_slice[i]), before |-> inventory]
    /\ UNCHANGED <<searchVars, pieceVars, tileVars>>

NextKeys ==
    \/ KeysJob
    \/ KeysChild

SpecKeys == InitKeys /\ [][NextKeys]_vars

(***************************************************************************)
(* Properties of the piece model (checked under SpecPiece).                *)
(***************************************************************************)
\* the piece is Pentonimo::new(kind)
Canonical == piece = Pentonimo_new(piece.kind)

RECURSIVE SumVariantCounts(_)
SumVariantCounts(n) ==
    IF n = 0 THEN 0
    ELSE Len(Pentonimo_variants(Pentonimo_new(PentonimoKind[n]))) + SumVariantCounts(n - 1)

\* C8: counting the items of Pentonimo::new(kind).variants() gives the expected
\* number of forms for the kind (F,L,N,P,Y: 8; T,U,V,W,Z: 4; I: 2; X: 1), and the
\* counts of the 12 kinds add up to 63.
C8_VariantCounts ==
    (ppc = "iterating" /\ Canonical /\ iter = <<>>) =>
        /\ Len(yielded) = expected_count(piece.kind)
        /\ SumVariantCounts(Len(PentonimoKind)) = 63

C8_Witness ==
    ppc = "iterating" /\ piece = Pentonimo_new("Z") /\ iter = <<>> /\ Len(yielded) = 4

\* the cells of a tile pattern, and the pattern moved to the origin
Cells(t) == {<<i % 8, i \div 8>> : i \in t}

ToOrigin(cs) ==
    LET mx == CHOOSE a \in {c[1] : c \in cs} : \A c \in cs : a <= c[1]
        my == CHOOSE a \in {c[2] : c \in cs} : \A c \in cs : a <= c[2]
    IN  {<<c[1] - mx, c[2] - my>> : c \in cs}

\* the eight rotation/reflection images of a cell pattern, each moved to the origin
OrientedImages(cs) ==
    {ToOrigin({<<c[1], c[2]>> : c \in cs}), ToOrigin({<<-c[2], c[1]>> : c \in cs}),
     ToOrigin({<<-c[1], -c[2]>> : c \in cs}), ToOrigin({<<c[2], -c[1]>> : c \in cs}),
     ToOrigin({<<-c[1], c[2]>> : c \in cs}), ToOrigin({<<c[1], -c[2]>> : c \in cs}),
     ToOrigin({<<c[2], c[1]>> : c \in cs}), ToOrigin({<<-c[2], -c[1]>> : c \in cs})}

\* C9: the variants of a kind are pairwise distinct after normalize(), and once
\* all are yielded they are exactly the kind's rotation/reflection images.
C9_VariantsDistinct ==
    (ppc = "iterating" /\ Canonical) =>
        /\ \A i, j \in 1 .. Len(yielded) :
              i < j => Pentonimo_normalize(yielded[i]).tile # Pentonimo_normalize(yielded[j]).tile
        /\ iter = <<>> =>
              {Cells(Pentonimo_normalize(yielded[i]).tile) : i \in 1 .. Len(yielded)}
                  = OrientedImages(Cells(piece.tile))

(***************************************************************************)
(* Properties of the diameter oracle (SpecDiam).                           *)
(***************************************************************************)
\* the free cells of the board's logical extent
FreeCells(tm) ==
    {c \in (0 .. tm.shape[1] - 1) \X (0 .. tm.shape[2] - 1) : ~TileMap_get(tm, c[1], c[2])}

\* the free 4-neighbours of a set of cells
Neighbours(tm, cs) ==
    {c \in FreeCells(tm) : \E f \in cs :
        (c[1] - f[1]) * (c[1] - f[1]) + (c[2] - f[2]) * (c[2] - f[2]) = 1}

\* the farthest layer of free cells around a start cell, and its distance
RECURSIVE Farthest(_, _, _, _)
Farthest(tm, seen, frontier, d) ==
    LET next == Neighbours(tm, frontier) \ seen
    IN  IF next = {} THEN [d |-> d, last |-> frontier]
        ELSE Farthest(tm, seen \cup next, next, d + 1)

RECURSIVE MaxOf(_)
MaxOf(S) ==
    IF S = {} THEN 0
    ELSE LET a == CHOOSE a \in S : TRUE
             m == MaxOf(S \ {a})
         IN  IF a > m THEN a ELSE m

\* C5: the diameter graph_diameter reports for an empty W x H board is
\* (W - 1) + (H - 1).
C5_EmptyBoardDiameter ==
    (call.op = "graph_diameter" /\ stamped = <<>>) =>
        /\ ~call.panics
        /\ call.d = (board.shape[1] - 1) + (board.shape[2] - 1)

\* C6: eccentricity of a free cell is the 4-connected distance to the farthest
\* reachable free cell, returned with a cell at exactly that distance; for an
\* occupied cell it is 0.
C6_EccentricityIsFarthestDistance ==
    call.op = "eccentricity" =>
        /\ ~call.panics
        /\ IF TileMap_get(board, call.x, call.y)
           THEN call.e = 0
           ELSE LET far == Farthest(board, {<<call.x, call.y>>}, {<<call.x, call.y>>}, 0)
                IN  call.e = far.d /\ call.end \in far.last

\* C7: graph_diameter is the maximum of eccentricity over every free cell of
\* the board, and it queries no coordinate outside the board.
C7_DiameterIsMaxEccentricity ==
    call.op = "graph_diameter" =>
        /\ ~call.panics
        /\ \A n \in 1 .. Len(graph_diameter_starts(board)) :
              /\ graph_diameter_starts(board)[n][1] < board.shape[1]
              /\ graph_diameter_starts(board)[n][2] < board.shape[2]
        /\ call.d = MaxOf({eccentricity(board, c[1], c[2]).e : c \in FreeCells(board)})

(***************************************************************************)
(* Properties of the board (SpecMap).                                      *)
(***************************************************************************)
\* the cells of the tile grid
GridCells(tm) ==
    (0 .. 8 * TileMap_tile_shape(tm)[1] - 1) \X (0 .. 8 * TileMap_tile_shape(tm)[2] - 1)

\* the cells a placed piece covers: its pattern moved to its offset
Covered(rhs) ==
    {<<c[1] + rhs.position[1], c[2] + rhs.position[2]>> : c \in Cells(rhs.pentonimo.tile)}

\* C10: stamping a placed piece for which can_place held sets exactly the
\* cells the piece covers and leaves every other cell as it was, also at
\* offsets with x mod 8 = 7 or y mod 8 = 7.
C10_StampSetsCoveredCells ==
    call.op = "stamp" =>
        \A c \in GridCells(board) :
            TileMap_get(board, c[1], c[2]) =
                (TileMap_get(call.before, c[1], c[2]) \/ c \in Covered(call.rhs))

(***************************************************************************)
(* Properties of the search (Spec).                                        *)
(***************************************************************************)
\* the board after stamping a list of placed pieces in list order
RECURSIVE StampAll(_, _, _)
StampAll(m, placed, k) ==
    IF k > Len(placed) THEN m ELSE StampAll(TileMap_bitor_assign(m, placed[k]), placed, k + 1)

\* can_place holds at every step of stamping the list in list order
RECURSIVE CanStampAll(_, _, _)
CanStampAll(m, placed, k) ==
    \/ k > Len(placed)
    \/ /\ ~TileMap_can_place_panics(m, placed[k])
       /\ TileMap_can_place(m, placed[k])
       /\ CanStampAll(TileMap_bitor_assign(m, placed[k]), placed, k + 1)

\* the pieces of the list lie inside the board and no two share a cell
InsideAndDisjoint(sh, placed) ==
    /\ \A k \in 1 .. Len(placed) :
          Covered(placed[k]) \subseteq (0 .. sh[1] - 1) \X (0 .. sh[2] - 1)
    /\ \A j, k \in 1 .. Len(placed) : j < k => Covered(placed[j]) \cap Covered(placed[k]) = {}

\* every (diameter, placement list) pair a job or find_best has returned and
\* that is still in sight: a worker's pair about to be pushed, and ret
Returned ==
    {[max |-> workers[t].max, placed |-> workers[t].placed] :
        t \in {u \in DOMAIN workers : workers[u].status = "push"}}
        \cup {ret[k] : k \in DOMAIN ret}

\* the dfs frames of the calls in progress
Frames == UNION {{workers[t].stack[k] : k \in DOMAIN workers[t].stack} : t \in DOMAIN workers}

\* the best diameter below a search node, computed without the visited table
\* and without threads: the node's own diameter if it is lower than its
\* parent's, else the largest value of the node and of its feasible children
RECURSIVE SubtreeBest(_, _, _)
SubtreeBest(key, prev_diameter, avail_slice) ==
    LET d == graph_diameter(key.map).d
    IN  IF d < prev_diameter THEN d
        ELSE MaxOf({d} \cup
                 {LET positioned == avail_slice[k]
                      map == TileMap_bitor_assign(key.map, positioned)
                      available_pieces ==
                          Candidates_decrement(key.available, kind_of(positioned))
                  IN  SubtreeBest(StateKey(map, available_pieces), d,
                                  new_available(avail_slice, available_pieces, map)) :
                  k \in {j \in 1 .. Len(avail_slice) :
                            TileMap_can_place(key.map, avail_slice[j])}})

\* the value of a sequential, table-free run of find_best
SequentialBest(sh) ==
    LET d0 == graph_diameter(TileMap_new(sh)).d
        top == find_best_available(sh)
        all == Candidates_new(AllOnes)
    IN  IF top = <<>> THEN d0
        ELSE MaxOf({LET map == TileMap_bitor_assign(TileMap_new(sh), top[k])
                        available_pieces == Candidates_decrement(all, kind_of(top[k]))
                    IN  SubtreeBest(StateKey(map, available_pieces), d0,
                                    new_available(top, available_pieces, map)) :
                    k \in 1 .. Len(top)})

\* C1: the diameter find_best returns is at least graph_diameter of the
\* empty board of the same shape.
C1_AtLeastPristine ==
    pc = "done" => ret[1].max >= graph_diameter(TileMap_new(shape)).d

C1_Witness ==
    /\ pc = "done" /\ Len(results) >= 2
    /\ \E k \in 1 .. Len(results) : results[k].max = graph_diameter(TileMap_new(shape)).d
    /\ \E k \in 1 .. Len(results) : results[k].max > graph_diameter(TileMap_new(shape)).d

C3_DiameterWitnessed ==
    /\ \A r \in Returned :
          graph_diameter(StampAll(TileMap_new(shape), r.placed, 1)).d = r.max
    /\ \A f \in Frames :
          graph_diameter(StampAll(f.key.map, f.placed, 1)).d = f.current_max

C3_Witness ==
    /\ pc = "done" /\ ret[1].max > diameter
    /\ \E k \in 1 .. Len(results) : Len(results[k].placed) >= 2 /\ results[k].max > diameter

C11_CanPlaceIffCellsFree ==
    call.op \in {"stamp", "stamp_infeasible"} =>
        ((call.op = "stamp") <=>
            \A c \in Covered(call.rhs) : ~TileMap_get(call.before, c[1], c[2]))

\* C12: every cell of the tile grid with x >= W or y >= H is occupied, on the
\* fresh board every cell with x < W and y < H is free, and a stamp never
\* clears an occupied cell.
C12_PaddingOccupied ==
    /\ \A c \in GridCells(board) :
          (c[1] >= board.shape[1] \/ c[2] >= board.shape[2]) => TileMap_get(board, c[1], c[2])
    /\ stamped = <<>> =>
          \A c \in (0 .. board.shape[1] - 1) \X (0 .. board.shape[2] - 1) :
              ~TileMap_get(board, c[1], c[2])
    /\ call.op \in {"stamp", "stamp_infeasible"} =>
          \A c \in GridCells(board) :
              TileMap_get(call.before, c[1], c[2]) => TileMap_get(board, c[1], c[2])

C12_Witness ==
    /\ Len(stamped) = 2 /\ board.shape = <<9, 9>>
    /\ call.op = "stamp_infeasible" /\ board # call.before
    /\ TileMap_get(board, 9, 8) /\ TileMap_get(board, 15, 15)

\* C15: stamping a placement for which can_place is false aborts and leaves
\* the board as it was.
C15_InfeasibleStampAborts ==
    call.op = "stamp_infeasible" => (call.panics /\ board = call.before)

(***************************************************************************)
(* More properties of the search (Spec).                                   *)
(***************************************************************************)
\* every placed piece that fits the board: x + dx <= W and y + dy <= H
EveryFit(sh) ==
    {Pentonimo_position(c[1], c[2], c[3]) :
        c \in {d \in AllVariants \X (0 .. sh[1]) \X (0 .. sh[2]) : Fits(sh, d[1], d[2], d[3])}}

\* C13: the top-level available set holds a placed piece for every variant
\* of every kind at exactly the offsets with x + dx <= W and y + dy <= H.
C13_AvailableIsEveryFit ==
    pc = "running" => {available[k] : k \in DOMAIN available} = EveryFit(shape)

\* the pieces stamped on the board of the k-th dfs frame of worker t: the
\* job's piece and the pieces the outer calls are trying
PathOf(t, k) ==
    workers[t].job \o
        [j \in 1 .. k - 1 |-> workers[t].stack[j].available[workers[t].stack[j].i]]

CountKind(kind, placed) ==
    Cardinality({i \in DOMAIN placed : placed[i].pentonimo.kind = kind})

\* C14: in every state the search explores and in every list it returns, a
\* kind occurs at most once, and the inventory slot of a kind is 1 minus the
\* number of placed pieces of the kind.
C14_EachKindOnce ==
    /\ \A t \in DOMAIN workers : \A k \in DOMAIN workers[t].stack : \A kind \in Kinds :
          /\ CountKind(kind, PathOf(t, k)) <= 1
          /\ Candidates_get(workers[t].stack[k].key.available, KindAsU8(kind))
                = 1 - CountKind(kind, PathOf(t, k))
          /\ CountKind(kind, PathOf(t, k) \o workers[t].stack[k].placed) <= 1
    /\ \A r \in Returned : \A kind \in Kinds : CountKind(kind, r.placed) <= 1

C14_Witness ==
    \E t \in DOMAIN workers :
        /\ Len(workers[t].stack) = 2
        /\ Cardinality({kind \in Kinds :
               Candidates_get(workers[t].stack[2].key.available, KindAsU8(kind)) = 0}) = 2

(***************************************************************************)
(* The candidate inventory.                                                *)
(***************************************************************************)
\* C16: decrement(i) on a slot holding 0, and set(i, v) or new(..) with a count
\* v >= 32, abort and leave the packed word as it was; any other set(i, v)
\* makes get(i) = v and keeps get(j) of every other slot j, and any other
\* decrement(i) lowers get(i) by exactly 1.
C16_InventoryContract ==
    /\ inv_call.op = "set" =>
            IF inv_call.v >= 32
            THEN inv_call.panics /\ inventory = inv_call.before
            ELSE /\ ~inv_call.panics
                 /\ Candidates_get(inventory, inv_call.i) = inv_call.v
                 /\ \A j \in CandSlots \ {inv_call.i} :
                        Candidates_get(inventory, j) = Candidates_get(inv_call.before, j)
    /\ inv_call.op = "decrement" =>
            IF Candidates_get(inv_call.before, inv_call.i) = 0
            THEN inv_call.panics /\ inventory = inv_call.before
            ELSE /\ ~inv_call.panics
                 /\ Candidates_get(inventory, inv_call.i)
                        = Candidates_get(inv_call.before, inv_call.i) - 1
    /\ inv_call.op = "new_from" =>
            IF \E j \in 1 .. NumSlots : inv_call.candidates[j] >= 32
            THEN inv_call.panics /\ inventory = inv_call.before
            ELSE ~inv_call.panics

\* slot 11 is set to 31 next to a slot 10 that already holds 31
C16_Witness ==
    /\ inv_call.op = "set" /\ ~inv_call.panics
    /\ inv_call.i = 11 /\ inv_call.v = 31
    /\ Candidates_get(inv_call.before, 10) = 31
    /\ Candidates_get(inv_call.before, 11) = 1

\* a decrement of a slot that an earlier set emptied
C16_WitnessAbort ==
    /\ inv_call.op = "decrement" /\ inv_call.panics
    /\ inv_call.before # Candidates_new([j \in 1 .. NumSlots |-> 1])

(***************************************************************************)
(* The tile.                                                               *)
(***************************************************************************)
\* the tile the j-th logged operation produced
TileAfter(j) == IF j = Len(tile_log) THEN tile ELSE tile_log[j + 1].before

\* the operations j .. j + n - 1 of the log are all `op` with argument `arg`
Repeated(j, n, op, arg) ==
    /\ j + n - 1 <= Len(tile_log)
    /\ \A k \in j .. j + n - 1 : tile_log[k].op = op /\ tile_log[k].arg = arg

\* C17: four rotations by 90 degrees in the same direction (Right, or Left)
\* give the tile back; so do two flip_x and two transpose.
C17_TransformsCycle ==
    \A j \in 1 .. Len(tile_log) :
        /\ \A rotate \in {"Right", "Left"} :
                Repeated(j, 4, "rotate", rotate) => TileAfter(j + 3) = tile_log[j].before
        /\ Repeated(j, 2, "flip_x", "") => TileAfter(j + 1) = tile_log[j].before
        /\ Repeated(j, 2, "transpose", "") => TileAfter(j + 1) = tile_log[j].before

\* the F piece's tile after four rotations to the right
C17_Witness ==
    /\ Repeated(1, 4, "rotate", "Right")
    /\ tile_log[1].before = Pentonimo_new("F").tile
    /\ tile_log[2].before # tile_log[1].before

\* C18: for -8 < d < 8, shift_x(d) sets bit (x, y) exactly when 0 <= x - d < 8
\* and the tile had bit (x - d, y); shift_y(d) sets bit (x, y) exactly when
\* 0 <= y - d < 8 and the tile had bit (x, y - d).  No bit changes row under
\* shift_x, and the full tile shifted by fewer than 8 cells is not empty.
C18_ShiftMovesCells ==
    \A j \in 1 .. Len(tile_log) :
        LET d == tile_log[j].arg
            t == tile_log[j].before
        IN  /\ tile_log[j].op = "shift_x" =>
                    /\ \A x \in 0 .. 7, y \in 0 .. 7 :
                            Tile_get(TileAfter(j), x, y)
                                <=> (0 <= x - d /\ x - d < 8 /\ Tile_get(t, x - d, y))
                    /\ t = Tile_full => ~Tile_is_empty(TileAfter(j))
            /\ tile_log[j].op = "shift_y" =>
                    /\ \A x \in 0 .. 7, y \in 0 .. 7 :
                            Tile_get(TileAfter(j), x, y)
                                <=> (0 <= y - d /\ y - d < 8 /\ Tile_get(t, x, y - d))
                    /\ t = Tile_full => ~Tile_is_empty(TileAfter(j))

\* the full tile shifted seven columns to the left: one column is left
C18_Witness ==
    /\ tile_log # <<>>
    /\ tile_log[Len(tile_log)].op = "shift_x"
    /\ tile_log[Len(tile_log)].arg = -7
    /\ tile_log[Len(tile_log)].before = Tile_full
    /\ Cardinality(tile) = 8

(***************************************************************************)
(* The discard rule of dfs.                                                *)
(***************************************************************************)
\* the dfs call a job makes for its piece, or the innermost call of worker t
\* makes for the element its loop is at: its key, its board's diameter and
\* the diameter passed to it
JobCall(positioned) ==
    LET map == TileMap_bitor_assign(TileMap_new(shape), positioned)
    IN  [key |-> StateKey(map, Candidates_decrement(Candidates_new(AllOnes), kind_of(positioned))),
         d |-> graph_diameter(map).d, prev |-> diameter]

ChildCall(f) ==
    LET positioned == f.available[f.i]
        map == TileMap_bitor_assign(f.key.map, positioned)
    IN  [key |-> StateKey(map, Candidates_decrement(f.key.available, kind_of(positioned))),
         d |-> graph_diameter(map).d, prev |-> f.diameter]

\* C19: a dfs call whose board's diameter is strictly below the diameter
\* passed to it returns (its diameter, no placements) at once: no frame is
\* opened for it, so it tries no child, the caller's best is as before, and
\* the visited table is untouched.  A call whose diameter is at least the
\* parent's always opens its frame.
C19_DiscardOnLowerDiameter ==
    [][\A t \in DOMAIN workers :
        LET w == workers[t]
            v == workers'[t]
        IN  /\ (pc = "running" /\ w.status = "idle" /\ v.status # "idle") =>
                    LET c == JobCall(v.job[1])
                    IN  IF c.d < c.prev
                        THEN /\ v.status = "push" /\ v.stack = <<>>
                             /\ v.max = c.d /\ v.placed = v.job
                             /\ states' = states
                        ELSE /\ v.status = "dfs" /\ Len(v.stack) = 1
                             /\ v.stack[1] = [Frame(c.key, c.d, <<>>) EXCEPT
                                                 !.available = v.stack[1].available]
            /\ (pc = "running" /\ w.status = "dfs" /\ v.status = "dfs" /\ v # w
                    /\ w.stack[Len(w.stack)].i <= Len(w.stack[Len(w.stack)].available)) =>
                    LET f == w.stack[Len(w.stack)]
                        c == ChildCall(f)
                    IN  (TileMap_can_place(f.key.map, f.available[f.i])
                            /\ ~contains_key(states, c.key)) =>
                        IF c.d < c.prev
                        THEN /\ v.stack = [w.stack EXCEPT ![Len(w.stack)].i = f.i + 1]
                             /\ states' = states
                        ELSE /\ Len(v.stack) = Len(w.stack) + 1
                             /\ SubSeq(v.stack, 1, Len(w.stack)) = w.stack
                             /\ v.stack[Len(v.stack)] =
                                    [Frame(c.key, c.d, <<>>) EXCEPT
                                        !.available = v.stack[Len(v.stack)].available]]_vars

\* a worker's innermost call has just had a placeable child with a lower
\* diameter than its own, and is still at its best of before
C19_Witness ==
    \E t \in DOMAIN workers :
        /\ workers[t].status = "dfs"
        /\ LET f == workers[t].stack[Len(workers[t].stack)]
           IN  /\ f.i > 1
               /\ LET g == [f EXCEPT !.i = f.i - 1]
                  IN  /\ TileMap_can_place(f.key.map, g.available[g.i])
                      /\ ~contains_key(states, ChildCall(g).key)
                      /\ ChildCall(g).d < f.diameter
                      /\ f.current_max = f.diameter

(***************************************************************************)
(* The visited table.                                                      *)
(***************************************************************************)
\* the open dfs calls: <<worker, depth>> of every frame
OpenCalls == UNION {{<<t, k>> : k \in 1 .. Len(workers[t].stack)} : t \in DOMAIN workers}

KeyOf(c) == workers[c[1]].stack[c[2]].key

\* C20: the subtree of a state key is expanded at most once over all workers:
\* no dfs call is open on a key the visited table already holds (its subtree
\* was expanded before), and no two open calls are on the same key (two
\* workers that reached the key at nearly the same time).
C20_ExpandedAtMostOnce ==
    /\ \A c \in OpenCalls : ~contains_key(states, KeyOf(c))
    /\ \A c, e \in OpenCalls : KeyOf(c) = KeyOf(e) => c = e

\* C21: an entry enters the visited table only when a dfs call on its key has
\* tried all of its children; its value is graph_diameter of the key's board;
\* a key has one value, and no entry is ever removed or changed.
C21_PostOrderInsert ==
    [][/\ states \subseteq states'
       /\ \A e \in states' \ states :
             /\ e.value = graph_diameter(e.key.map).d
             /\ \E t \in DOMAIN workers :
                   /\ workers[t].status = "dfs"
                   /\ LET f == workers[t].stack[Len(workers[t].stack)]
                      IN  f.key = e.key /\ f.i > Len(f.available)
       /\ \A e \in states' \ states : \A g \in states : g.key # e.key]_vars

\* the table holds a board with two pieces next to other entries
C21_Witness ==
    /\ Cardinality(states) >= 2
    /\ \E e \in states :
          Cardinality({kind \in Kinds : Candidates_get(e.key.available, KindAsU8(kind)) = 0}) = 2

(***************************************************************************)
(* What a dfs call returns.                                                *)
(***************************************************************************)
\* the key of the dfs call a job makes for its piece
JobKey(positioned) ==
    StateKey(TileMap_bitor_assign(TileMap_new(shape), positioned),
             Candidates_decrement(Candidates_new(AllOnes), kind_of(positioned)))

\* the dfs calls of the jobs: a job's result is what its dfs call returned,
\* with the job's own piece pushed last
JobReturns ==
    {[key |-> JobKey(results[k].placed[Len(results[k].placed)]), max |-> results[k].max] :
        k \in DOMAIN results}

\* C22: two dfs calls on equal state keys return the same best diameter,
\* whatever the visited table held when each was made: of the calls the
\* finished jobs made, those on equal keys returned equal values.
C22_EqualKeysEqualBest ==
    \A a, b \in JobReturns : a.key = b.key => a.max = b.max

(***************************************************************************)
(* The jobs and the reduction.                                             *)
(***************************************************************************)
\* the piece of the job that pushed the k-th result: pushed last onto its list
JobOf(k) == results[k].placed[Len(results[k].placed)]

\* C23: one job per top-level placement and one result per job: every job
\* taken from the queue has pushed one result or is still running; the
\* reduction runs when each placement's job has pushed its result; and the
\* value returned is a collected result of maximum diameter, or the pristine
\* board's diameter with no placement when there is no top-level placement.
C23_OneResultPerJob ==
    /\ pc = "running" =>
          Len(results) + Cardinality({t \in DOMAIN workers : workers[t].status # "idle"})
              = next_job
    /\ pc = "done" =>
          /\ Len(results) = Len(available)
          /\ \A j \in DOMAIN available :
                Cardinality({k \in DOMAIN available : available[k] = available[j]})
                    = Cardinality({k \in DOMAIN results : JobOf(k) = available[j]})
          /\ IF available = <<>>
             THEN ret[1] = [max |-> graph_diameter(TileMap_new(shape)).d, placed |-> <<>>]
             ELSE /\ \E k \in DOMAIN results : ret[1] = results[k]
                  /\ \A k \in DOMAIN results : results[k].max <= ret[1].max

\* two pool threads have finished a search whose jobs pushed different values
C23_Witness ==
    /\ pc = "done" /\ num_threads = 2
    /\ \E j, k \in DOMAIN results : results[j].max < results[k].max

(***************************************************************************)
(* The slice of placements a dfs call receives.                            *)
(***************************************************************************)
\* the top-level placements that a state key still admits
KeySlice(key) ==
    SelectSeq(available,
              LAMBDA p : /\ Candidates_get(key.available, kind_of(p)) > 0
                         /\ TileMap_can_place(key.map, p))

ChildKey(f) ==
    StateKey(TileMap_bitor_assign(f.key.map, f.available[f.i]),
             Candidates_decrement(f.key.available, kind_of(f.available[f.i])))

\* C25: the slice a dfs call receives is determined by its state key: it is
\* the top-level placements whose kind has a positive count in the key's
\* inventory and that can be placed on the key's board, whatever sequence of
\* placements led to the key.  This holds for the call of every open frame
\* and for the call the frame is about to make on its next feasible child.
C25_SliceFromKey ==
    \A f \in Frames :
        /\ f.available = KeySlice(f.key)
        /\ (f.i <= Len(f.available) /\ TileMap_can_place(f.key.map, f.available[f.i])) =>
              new_available(f.available, ChildKey(f).available, ChildKey(f).map)
                  = KeySlice(ChildKey(f))

C25_Witness ==
    \E t \in DOMAIN workers :
        /\ Len(workers[t].stack) >= 2
        /\ workers[t].stack[1].available # <<>>
        /\ Len(workers[t].stack[1].available) < Len(available) - 1

(***************************************************************************)
(* Depth of the recursion.                                                 *)
(***************************************************************************)
\* the number of set bits of the board's tiles
Occupied(map) == Cardinality({<<k, b>> \in (DOMAIN map.tiles) \X (0 .. 63) : b \in map.tiles[k]})

\* the number of pieces the inventory holds
Held(c) == Cardinality({i \in CandSlots : Candidates_get(c, i) > 0})

\* C24: every dfs call has one piece fewer in its inventory and five more
\* occupied cells on its board than its caller, starting from the job, which
\* holds the full inventory and the empty board: the key of a call at depth
\* k holds 12 - k pieces and its board has 5 * k occupied cells more than the
\* empty board, so no call is deeper than 12.
C24_FiveCellsPerCall ==
    /\ Len(stamped) <= 12
    /\ Held(inventory) = 12 - Len(stamped)
    /\ Occupied(board) = Occupied(TileMap_new(board.shape)) + 5 * Len(stamped)

(***************************************************************************)
(* Aborts inside find_best.                                                *)
(***************************************************************************)
\* C26: no abort is reachable inside find_best, for any shape with W, H >= 1:
\* the driver does not panic, and no job unwinds (a job that was taken has
\* pushed its result or is still running).
C26_NoAbort ==
    /\ pc # "panicked"
    /\ pc \in {"running", "done"} =>
          Len(results) + Cardinality({t \in DOMAIN workers : workers[t].status # "idle"})
              >= next_job
====
